---- MODULE Spec2Model ----
(***************************************************************************)
(* The load path of the financial data pipeline: load_data                 *)
(* (src/data_loader.py) with the three fetchers of src/api_fetchers.py and *)
(* the stock_prices table it upserts into.                                 *)
(*                                                                         *)
(* Time is counted in ticks, TicksPerDay ticks to a calendar day.  A       *)
(* datetime is a tick, a date is a day number; a date held in a DataFrame  *)
(* column is written as the midnight tick of its day.  The table's         *)
(* timestamp column is a DATE (a day number).                              *)
(***************************************************************************)
EXTENDS Integers, Sequences, FiniteSets, TLC

\* ---------------------------------------------------------------- bounds
MaxDay == 2
TicksPerDay == 2

\* ------------------------------------------------------- program constants
\* date(2005, 1, 1) as a day number; day EPOCH - 1 is 2004-12-31
EPOCH == 1
\* Python's None where a date is expected
None == -1

Days == 0..MaxDay

Procs == {"run1", "run2"}
Symbols == {"MSFT", "BTC"}
AssetLists == {<<"MSFT">>, <<"MSFT", "BTC">>}
Fetchers == {"AlphaVantageFetcher", "YahooFinanceFetcher", "CoinMarketCapFetcher"}

\* the value columns a source can quote for one bar
Quotes ==
  { [open_price |-> 1, high_price |-> 2, low_price |-> 1, close_price |-> 2, volume |-> 5],
    [open_price |-> 2, high_price |-> 3, low_price |-> 2, close_price |-> 3, volume |-> 7] }
Prices == {1, 2}

VARIABLES
  table,   \* committed rows of stock_prices
  now,     \* the clock, in ticks
  pc,      \* per run: position in load_data
  args,    \* per run: load_data's arguments and the secrets it read
  loc,     \* per run: load_data's locals for the symbol in hand
  hist,    \* per run: what the run has done (observation only)
  secret,  \* one call of get_secret: its key, the two stores, its result
  script,  \* the daily_update.py script: its position, the loads it made
  fixed    \* two concurrent runs: what both are given (table, arguments, answer)

\* what load_data's steps leave alone
others == <<secret, script, fixed>>

vars == <<table, now, pc, args, loc, hist, secret, script, fixed>>

\* ------------------------------------------------------------ conversions
\* pandas `.dt.date`, and the cast of a timestamp to the DATE column
DtDate(ts) == ts \div TicksPerDay

\* pd.to_datetime of a date string: midnight of that day
ToDatetime(d) == d * TicksPerDay

Today == DtDate(now)

Max(S) == CHOOSE x \in S : \A y \in S : y <= x

\* ------------------------------------------------------------- the table
Key(r) == <<r.timestamp, r.symbol>>

\* SELECT MAX(timestamp) FROM stock_prices WHERE symbol = %s
SelectMaxTimestamp(tbl, symbol) ==
  LET ds == { r.timestamp : r \in { x \in tbl : x.symbol = symbol } }
  IN  IF ds = {} THEN None ELSE Max(ds)

\* a row of data_to_insert as the DATE-keyed row the table stores
Stored(b) == [b EXCEPT !.timestamp = DtDate(b.timestamp)]

\* two rows of one INSERT that hit the same (timestamp, symbol): PostgreSQL
\* refuses the statement ("cannot affect row a second time")
HasDuplicateKey(batch) ==
  \E a \in batch, b \in batch : a # b /\ Key(Stored(a)) = Key(Stored(b))

\* variant: the INSERT without its ON CONFLICT clause and without the
\* unique constraint behind it
UpsertPlainInsert(tbl, batch) == tbl \cup { Stored(b) : b \in batch }

\* variant: ON CONFLICT (timestamp, symbol) DO NOTHING
UpsertDoNothing(tbl, batch) ==
  tbl \cup { s \in { Stored(b) : b \in batch } :
               ~ \E r \in tbl : Key(r) = Key(s) }

\* INSERT ... ON CONFLICT (timestamp, symbol) DO UPDATE SET <every value
\* column and load_timestamp> = EXCLUDED.<column>
Upsert(tbl, batch) ==
  { r \in tbl : ~ \E b \in batch : Key(Stored(b)) = Key(r) }
    \cup { Stored(b) : b \in batch }

\* ------------------------------------------------------ date-range resolver
\* variant: the custom_start_date branch left out
ResolveWindowNoOverride(latest_date_db, historical, custom_start_date, custom_end_date, today) ==
  IF historical \/ latest_date_db = None
    THEN [mode |-> "historical", start_date |-> EPOCH, end_date |-> None,
          filter_date |-> None]
    ELSE [mode |-> "incremental", start_date |-> latest_date_db + 1,
          end_date |-> today, filter_date |-> latest_date_db]

\* variant: the stored date tested before the historical flag
ResolveWindowIncrementalFirst(latest_date_db, historical, custom_start_date, custom_end_date, today) ==
  IF custom_start_date # None
    THEN [mode |-> "custom", start_date |-> custom_start_date,
          end_date |-> IF custom_end_date # None THEN custom_end_date ELSE today,
          filter_date |-> None]
  ELSE IF latest_date_db # None
    THEN [mode |-> "incremental", start_date |-> latest_date_db + 1,
          end_date |-> today, filter_date |-> latest_date_db]
    ELSE [mode |-> "historical", start_date |-> EPOCH, end_date |-> None,
          filter_date |-> None]

\* variant: the historical branch filters by the epoch
ResolveWindowEpochFilter(latest_date_db, historical, custom_start_date, custom_end_date, today) ==
  IF custom_start_date # None
    THEN [mode |-> "custom", start_date |-> custom_start_date,
          end_date |-> IF custom_end_date # None THEN custom_end_date ELSE today,
          filter_date |-> None]
  ELSE IF historical \/ latest_date_db = None
    THEN [mode |-> "historical", start_date |-> EPOCH, end_date |-> None,
          filter_date |-> EPOCH]
    ELSE [mode |-> "incremental", start_date |-> latest_date_db + 1,
          end_date |-> today, filter_date |-> latest_date_db]

\* load_data, step 1: the fetch window and the filter date of one symbol
ResolveWindow(latest_date_db, historical, custom_start_date, custom_end_date, today) ==
  IF custom_start_date # None
    THEN [mode |-> "custom", start_date |-> custom_start_date,
          end_date |-> IF custom_end_date # None THEN custom_end_date ELSE today,
          filter_date |-> None]
  ELSE IF historical \/ latest_date_db = None
    THEN [mode |-> "historical", start_date |-> EPOCH, end_date |-> None,
          filter_date |-> None]
    ELSE [mode |-> "incremental", start_date |-> latest_date_db + 1,
          end_date |-> today, filter_date |-> latest_date_db]

\* load_data, step 2: the `continue` branches of the fetcher instantiation
FetcherSkipped(fetcher_class, alpha_vantage_api_key, coin_market_api_key) ==
  \/ fetcher_class = "AlphaVantageFetcher" /\ ~alpha_vantage_api_key
  \/ fetcher_class = "CoinMarketCapFetcher" /\ ~coin_market_api_key
  \/ fetcher_class \notin Fetchers

\* is_full_historical_av
IsFullHistoricalAv(start_date, custom_start_date) ==
  start_date = EPOCH /\ custom_start_date = None

\* ------------------------------------------------------------- fetchers
(* What a source answers to one request: kind is how the request ended,     *)
(* series the daily bars the source holds (date -> the bar's values),       *)
(* price the quote of the latest-only source, decode_error what             *)
(* response.json() raises on a body that is not JSON.                       *)
\* the ways a request fails: requests.get raises, the status is not 200, the
\* body of a 200 answer is not JSON, the JSON lacks the expected top-level
\* field, the source does not know the symbol
FailureKinds ==
  {"transport_error", "bad_status", "not_json", "missing_field", "unknown_symbol"}
\* a daily series came back, but one of its bars lacks a value or holds one
\* that is no number
BarDefects == {"bar_lacks_field", "bar_not_numeric"}
NoSeries == [d \in {} |-> 0]

\* response.json() on a body that is not JSON raises
\* requests.exceptions.JSONDecodeError, a RequestException, with requests
\* 2.27 or later and a plain ValueError before; the repository pins no version
DecodeErrors == {"RequestException", "ValueError"}

\* AlphaVantageFetcher._get_data_keys: the keys of one bar of the series
open_key == "1. open"
high_key == "2. high"
low_key == "3. low"
close_key == "4. close"
volume_key == "5. volume"

\* the numbers a response spells out, as the strings of its JSON
Numerals == <<"0", "1", "2", "3", "4", "5", "6", "7", "8", "9">>
IsNumeric(str) == \E n \in 1..Len(Numerals) : Numerals[n] = str
\* float(str) of a string that spells a number
Float(str) == (CHOOSE n \in 1..Len(Numerals) : Numerals[n] = str) - 1
\* str(x), the way a response spells the number x
Str(x) == Numerals[x + 1]

\* float(values.get(key, 0)): the number of the bar's value, 0 for a key the
\* bar lacks; a value that spells no number makes float raise ValueError
FloatRaises(values, key) == key \in DOMAIN values /\ ~IsNumeric(values[key])
FloatGet(values, key) == IF key \in DOMAIN values THEN Float(values[key]) ELSE 0

\* one bar of an Alpha Vantage series as its JSON object
Values(q) ==
  (open_key :> Str(q.open_price)) @@ (high_key :> Str(q.high_price))
    @@ (low_key :> Str(q.low_price)) @@ (close_key :> Str(q.close_price))
    @@ (volume_key :> Str(q.volume))

Bar(ts, symbol, q) ==
  [timestamp |-> ts, symbol |-> symbol,
   open_price |-> q.open_price, high_price |-> q.high_price,
   low_price |-> q.low_price, close_price |-> q.close_price,
   volume |-> q.volume]

\* AlphaVantageFetcher.fetch_data: the record built from one entry of the
\* time series
Record(date, symbol, values) ==
  [timestamp |-> ToDatetime(date), symbol |-> symbol,
   open_price |-> FloatGet(values, open_key),
   high_price |-> FloatGet(values, high_key),
   low_price |-> FloatGet(values, low_key),
   close_price |-> FloatGet(values, close_key),
   volume |-> FloatGet(values, volume_key)]

\* what a fetch_data call hands back: a DataFrame, or an exception that
\* leaves fetch_data
Returned(df) == [raised |-> FALSE, df |-> df]
Raised == [raised |-> TRUE, df |-> {}]

\* AlphaVantageFetcher.fetch_data: the outputsize asked for
OutputSize(historical) == IF historical THEN "full" ELSE "compact"

\* AlphaVantageFetcher.fetch_data: requests.get, response.json() and the
\* float conversions are outside any try
AlphaVantageFetch(symbol, historical, resp) ==
  IF resp.kind = "transport_error" THEN Raised       \* requests.get raises
  ELSE IF resp.kind = "bad_status" THEN Returned({})
  ELSE IF resp.kind = "not_json" THEN Raised         \* response.json() raises
  ELSE IF resp.kind \in {"missing_field", "unknown_symbol"} THEN Returned({})
  ELSE IF \E d \in DOMAIN resp.series :
            \E key \in {open_key, high_key, low_key, close_key, volume_key} :
              FloatRaises(resp.series[d], key)
    THEN Raised                                      \* float raises ValueError
  ELSE Returned({ Record(d, symbol, resp.series[d]) : d \in DOMAIN resp.series })

\* variant: the window is not passed on to ticker.history
YahooFinanceFetchNoWindow(symbol, start_date, end_date, today, resp) ==
  IF resp.kind # "ok" THEN Returned({})
  ELSE Returned({ Bar(ToDatetime(d), symbol, resp.series[d]) : d \in DOMAIN resp.series })

\* YahooFinanceFetcher.fetch_data: ticker.history(start, end) answers the bars
\* with start <= date < end; every exception is caught
YahooFinanceFetch(symbol, start_date, end_date, today, resp) ==
  LET end == IF end_date # None THEN end_date ELSE today
      ds  == { d \in DOMAIN resp.series : start_date <= d /\ d < end }
  IN  IF resp.kind # "ok" THEN Returned({})
      ELSE Returned({ Bar(ToDatetime(d), symbol, resp.series[d]) : d \in ds })

\* variant: the bar stamped with the day of the call, not its time
CoinMarketCapFetchDateOnly(symbol, api_key, clock, resp) ==
  IF ~api_key THEN Returned({})
  ELSE IF resp.kind \in {"transport_error", "bad_status"} THEN Returned({})
  ELSE IF resp.kind = "not_json"
    THEN IF resp.decode_error = "RequestException" THEN Returned({}) ELSE Raised
  ELSE IF resp.kind = "missing_field" THEN Raised
  ELSE IF resp.kind = "unknown_symbol" THEN Returned({})
  ELSE Returned({ [timestamp |-> ToDatetime(DtDate(clock)), symbol |-> symbol,
                   open_price |-> resp.price, high_price |-> resp.price,
                   low_price |-> resp.price, close_price |-> resp.price,
                   volume |-> 0] })

\* CoinMarketCapFetcher.fetch_data: the try catches RequestException only;
\* the bar is stamped with datetime.now() inside fetch_data
CoinMarketCapFetch(symbol, api_key, clock, resp) ==
  IF ~api_key THEN Returned({})
  ELSE IF resp.kind \in {"transport_error", "bad_status"} THEN Returned({})
  ELSE IF resp.kind = "not_json"                      \* response.json() raises
    THEN IF resp.decode_error = "RequestException" THEN Returned({}) ELSE Raised
  ELSE IF resp.kind = "missing_field" THEN Raised     \* data['data'], ['quote']['USD']
  ELSE IF resp.kind = "unknown_symbol" THEN Returned({})
  ELSE Returned({ [timestamp |-> clock, symbol |-> symbol,
                   open_price |-> resp.price, high_price |-> resp.price,
                   low_price |-> resp.price, close_price |-> resp.price,
                   volume |-> 0] })

\* the fetcher reads the clock once the answer is in hand: in
\* CoinMarketCapFetcher.fetch_data `timestamp = datetime.now()` comes after
\* requests.get, raise_for_status and response.json() have gone through and
\* the quote was found
StampsAfterAnswer(fetcher_class, api_key, resp) ==
  fetcher_class = "CoinMarketCapFetcher" /\ api_key /\ resp.kind = "ok"

\* the pause a fetcher makes after its API request: time.sleep(1) in
\* AlphaVantageFetcher.fetch_data once requests.get has returned; the other
\* fetchers, and load_data itself, have none
SleepsAfterRequest(fetcher_class, resp) ==
  fetcher_class = "AlphaVantageFetcher" /\ resp.kind # "transport_error"

\* load_data, step 3: the call of the fetcher in hand
FetchData(fetcher_class, symbol, a, w, clock, resp) ==
  IF fetcher_class = "AlphaVantageFetcher"
    THEN AlphaVantageFetch(symbol, IsFullHistoricalAv(w.start_date, a.custom_start_date), resp)
  ELSE IF fetcher_class = "YahooFinanceFetcher"
    THEN YahooFinanceFetch(symbol, w.start_date, w.end_date, DtDate(clock), resp)
    ELSE CoinMarketCapFetch(symbol, a.coin_market_api_key, clock, resp)

\* variant: rows of the latest stored date kept (>= for >)
LocalFilterInclusive(df, filter_date) ==
  IF df # {} /\ filter_date # None
    THEN { [r EXCEPT !.timestamp = ToDatetime(DtDate(r.timestamp))] :
             r \in { x \in df : DtDate(x.timestamp) >= filter_date } }
    ELSE df

\* load_data, step 3.5: keep the rows strictly newer than the latest stored
\* date; the timestamp column becomes a date (its day's midnight)
LocalFilter(df, filter_date) ==
  IF df # {} /\ filter_date # None
    THEN { [r EXCEPT !.timestamp = ToDatetime(DtDate(r.timestamp))] :
             r \in { x \in df : DtDate(x.timestamp) > filter_date } }
    ELSE df

\* variant: an empty result is not skipped
DfEmptyNever(df) == FALSE

\* load_data, step 3.5 end: `if df.empty`, the symbol is skipped
DfEmpty(df) == df = {}

\* load_data, step 4: the tuple the comprehension builds from one row of df;
\* datetime.now() is read anew for every row
InsertTuple(row, clock) ==
  [timestamp |-> row.timestamp, symbol |-> row.symbol,
   open_price |-> row.open_price, high_price |-> row.high_price,
   low_price |-> row.low_price, close_price |-> row.close_price,
   volume |-> row.volume, load_timestamp |-> clock]

\* the rows of df the comprehension has not come to yet
RowsLeft(df, tuples) ==
  { row \in df : ~ \E t \in tuples : t.timestamp = row.timestamp /\ t.symbol = row.symbol }

\* ---------------------------------------------------------- connections
\* init_connection: a connection, or None when SUPABASE_DB_URL is missing,
\* when get_secret raises over it, or when psycopg2.connect raises (the
\* `except Exception` of the function takes all three)
DbStates == {"ok", "no_url", "url_lookup_raised", "unreachable"}
InitConnection(db) == IF db = "ok" THEN "open" ELSE "none"

\* variant: the None test left out
ConnIsNoneIgnored(conn) == FALSE

\* load_data: `if conn is None: return`

ConnIsNone(conn) == conn = "none"

\* get_latest_date: the newest stored date of the symbol; None when there is
\* no row, when its own connection fails, or when the query raises
GetLatestDate(tbl, symbol, db) ==
  IF ConnIsNone(InitConnection(db)) THEN None ELSE SelectMaxTimestamp(tbl, symbol)

\* ------------------------------------------------------------ the sources
\* the answer of a source in full
Response(kind, series, price, decode_error) ==
  [kind |-> kind, series |-> series, price |-> price, decode_error |-> decode_error]

\* the quote of the bars the sources answer with; the stored rows have the
\* other one
NewQuote == CHOOSE q \in Quotes : q.open_price = 2

\* the daily series a source can hold on a given day: the bars of a run of
\* consecutive days up to that day at the latest
SeriesUpTo(today) ==
  { [d \in lo..hi |-> NewQuote] :
      lo \in Days, hi \in { d \in Days : d <= today } } \ { NoSeries }

\* a bar of the series without its '4. close'
LacksClose(values) == [key \in DOMAIN values \ {close_key} |-> values[key]]
\* a bar of the series whose '1. open' is the string 'None'
OpenNotNumeric(values) == [values EXCEPT ![open_key] = "None"]

\* the series Alpha Vantage can answer, as JSON: well-formed series, and
\* series of one bar with a defect
TimeSeries(today, kind) ==
  { [d \in DOMAIN sr |->
       IF kind = "ok" THEN Values(sr[d])
       ELSE IF kind = "bar_lacks_field" THEN LacksClose(Values(sr[d]))
       ELSE OpenNotNumeric(Values(sr[d]))] :
    sr \in { x \in SeriesUpTo(today) :
               \/ kind = "ok"
               \/ Cardinality(DOMAIN x) = 1 /\ \A d \in DOMAIN x : x[d] = NewQuote } }

\* what the source of a fetcher can answer on a given day
Responses(fetcher_class, today) ==
  { Response(k, NoSeries, 0, "none") : k \in FailureKinds \ {"not_json"} }
    \cup { Response("not_json", NoSeries, 0, e) : e \in DecodeErrors }
    \cup (IF fetcher_class = "CoinMarketCapFetcher"
            THEN { Response("ok", NoSeries, pr, "none") : pr \in Prices }
          ELSE IF fetcher_class = "AlphaVantageFetcher"
            THEN UNION { { Response(k, sr, 0, "none") : sr \in TimeSeries(today, k) } :
                           k \in {"ok"} \cup BarDefects }
            ELSE { Response("ok", sr, 0, "none") : sr \in SeriesUpTo(today) })

\* the custom windows a caller passes (custom_start_date, custom_end_date)
CustomWindows ==
  { <<None, None>> }
    \cup { <<EPOCH + 1, None>>, <<EPOCH, EPOCH + 1>> }

\* the clock when the model starts, the last tick of the day before MaxDay,
\* and where it stops, the first tick of MaxDay: midnight can pass in a run
StartDay == MaxDay - 1
StartNow == ToDatetime(StartDay) + (TicksPerDay - 1)
MaxNow == ToDatetime(MaxDay)

\* the tables earlier loads can have left: per symbol the bars of some past
\* days, each loaded in the evening of its day
OldQuote == CHOOSE q \in Quotes : q.open_price = 1
StoredDays ==
  [s \in Symbols |->
     IF s = "MSFT" THEN SUBSET { d \in Days : d <= StartDay }
                   ELSE { {}, {StartDay} }]
StoredTables ==
  { UNION { { [timestamp |-> d, symbol |-> s,
               open_price |-> OldQuote.open_price, high_price |-> OldQuote.high_price,
               low_price |-> OldQuote.low_price, close_price |-> OldQuote.close_price,
               volume |-> OldQuote.volume,
               load_timestamp |-> ToDatetime(d) + (TicksPerDay - 1)] : d \in f[s] }
            : s \in Symbols }
    : f \in { g \in [Symbols -> SUBSET Days] : \A s \in Symbols : g[s] \in StoredDays[s] } }

\* ------------------------------------------------------------------ state
NoArgs ==
  [fetcher_class |-> "YahooFinanceFetcher", assets |-> <<>>, historical |-> FALSE,
   custom_start_date |-> None, custom_end_date |-> None,
   alpha_vantage_api_key |-> FALSE, coin_market_api_key |-> FALSE]

NoWindow == [mode |-> "none", start_date |-> None, end_date |-> None, filter_date |-> None]

\* no answer in hand
NoResponse == Response("none", NoSeries, 0, "none")

NoLoc ==
  [conn |-> "none", i |-> 1, symbol |-> "", latest_date_db |-> None, w |-> NoWindow,
   response |-> NoResponse, df |-> {}, data_to_insert |-> {}, pending |-> {}]

NoHist ==
  [attempted |-> {}, committed |-> {}, kind |-> "none", fetched |-> {}, snap |-> {},
   today |-> None, outcome |-> "none", fetches |-> <<>>, upserts |-> <<>>,
   called_at |-> None, price |-> 0, slept |-> FALSE, unpaused |-> FALSE,
   output_size |-> "none"]

\* ------------------------------------------------------------ get_secret
SecretKeys == {"SUPABASE_DB_URL", "ALPHA_VANTAGE_API_KEY", "COIN_MARKET_API_KEY"}
\* what os.environ.get(key) gives: "None" for a key not in the environment,
\* the empty string, or a value
EnvValues == {"None", "", "local"}
\* what st.secrets.get(key) does: it gives None, the empty string or a
\* value, or it raises (FileNotFoundError of Streamlit's secrets when there is
\* no secrets.toml to read)
CloudValues == {"None", "", "cloud", "FileNotFoundError"}

\* Python's truth value of an Optional[str]
Truthy(v) == v \notin {"None", ""}

\* get_secret: the local value when it is truthy; else, with streamlit
\* imported and st.secrets there, the hosted store is asked, with no try
\* around the lookup; else None
GetSecret(key, environ, streamlit_env, has_secrets, secrets) ==
  IF Truthy(environ[key]) THEN [raised |-> FALSE, value |-> environ[key]]
  ELSE IF streamlit_env /\ has_secrets
    THEN IF secrets[key] = "FileNotFoundError"
           THEN [raised |-> TRUE, value |-> "None"]
         ELSE IF Truthy(secrets[key])
           THEN [raised |-> FALSE, value |-> secrets[key]]
         ELSE [raised |-> FALSE, value |-> "None"]
  ELSE [raised |-> FALSE, value |-> "None"]

NoSecret ==
  [key |-> "none", environ |-> [k \in SecretKeys |-> "None"], streamlit_env |-> FALSE,
   has_secrets |-> FALSE, secrets |-> [k \in SecretKeys |-> "None"],
   returned |-> FALSE, raised |-> FALSE, value |-> "None"]

\* load_data's two get_secret calls (lines 170 and 171, outside any try):
\* both return, or the first raises, or the first returns and the second
\* raises
KeyReads == {"returned", "first_raised", "second_raised"}

\* ------------------------------------------------------- daily_update.py
\* load_data is called directly, no script runs
NoScript == [pc |-> "none", error |-> "none", calls |-> <<>>]
\* python daily_update.py, about to run its first statement (line 7)
ScriptStart == [pc |-> "line7", error |-> "none", calls |-> <<>>]

\* the two loads the script's lines 13-22 spell out
StocksLoad ==
  [fetcher_class |-> "AlphaVantageFetcher",
   assets |-> <<"MSFT", "KO", "JPM", "GLD", "SLV">>, historical |-> FALSE]
CryptosLoad ==
  [fetcher_class |-> "YahooFinanceFetcher",
   assets |-> <<"BTC", "ETH">>, historical |-> FALSE]

\* no concurrent pair of runs
NoFixed ==
  [on |-> FALSE, table0 |-> {}, a |-> NoArgs, resp |-> NoResponse]

\* ------------------------------------------------------------------ Init
\* either load_data is about to be called, or daily_update.py is launched
Init ==
  /\ script \in {NoScript, ScriptStart}
  /\ table \in StoredTables
  /\ now = StartNow
  /\ pc = [p \in Procs |-> "idle"]
  /\ args = [p \in Procs |-> NoArgs]
  /\ loc = [p \in Procs |-> NoLoc]
  /\ hist = [p \in Procs |-> NoHist]
  /\ secret = NoSecret
  /\ fixed = NoFixed

Symbol(p) == args[p].assets[loc[p].i]

\* ---------------------------------------------------------------- actions
\* the clock advances
Tick ==
  /\ now < MaxNow
  /\ now' = now + 1
  /\ UNCHANGED <<table, pc, args, loc, hist, others>>

\* load_data is called with arguments and key values a, the database in
\* state db: init_connection, then the two API keys are read, keys telling
\* how the reads end.  A read that raises leaves load_data at once, the
\* connection open and no symbol looked at
StartRunWith(p, a, db, keys) ==
  /\ pc[p] = "idle"
  /\ args' = [args EXCEPT ![p] = a]
  /\ loc' = [loc EXCEPT ![p] = [NoLoc EXCEPT !.conn = InitConnection(db)]]
  /\ pc' = [pc EXCEPT ![p] =
       IF ConnIsNone(InitConnection(db)) THEN "done"
       ELSE IF keys # "returned" THEN "aborted" ELSE "symbol"]
  /\ hist' = [hist EXCEPT ![p] =
       [NoHist EXCEPT !.snap = table,
                      !.fetches = [k \in 1..Len(a.assets) |-> 0],
                      !.upserts = [k \in 1..Len(a.assets) |-> 0],
                      !.outcome =
                         IF ~ConnIsNone(InitConnection(db)) /\ keys # "returned"
                           THEN "secret_raised" ELSE "none"]]
  /\ UNCHANGED <<table, now, others>>

\* load_data is called by some caller
StartRun(p) ==
  /\ pc[p] = "idle"
  /\ script.pc = "none"
  /\ \E fc \in Fetchers, as \in AssetLists, h \in BOOLEAN, cw \in CustomWindows,
        av \in BOOLEAN, cmc \in BOOLEAN, db \in DbStates, keys \in KeyReads :
       \* a key the chosen fetcher does not use is taken as present when
       \* both reads return; a key whose read raised, or was not come to,
       \* is not there, and a key read before the one that raised came from
       \* the environment
       /\ keys = "returned" => /\ fc # "AlphaVantageFetcher" => av
                               /\ fc # "CoinMarketCapFetcher" => cmc
       /\ keys = "first_raised" => ~av /\ ~cmc
       /\ keys = "second_raised" => av /\ ~cmc
       \* the keys are not read without a connection
       /\ ConnIsNone(InitConnection(db)) => keys = "returned"
       /\ StartRunWith(p,
            [fetcher_class |-> fc, assets |-> as, historical |-> h,
             custom_start_date |-> cw[1], custom_end_date |-> cw[2],
             alpha_vantage_api_key |-> av, coin_market_api_key |-> cmc], db, keys)

\* the loop is over: the connection is closed and load_data returns
Finish(p) ==
  /\ pc[p] = "symbol"
  /\ loc[p].i > Len(args[p].assets)
  /\ loc' = [loc EXCEPT ![p].conn = "closed"]
  /\ pc' = [pc EXCEPT ![p] = "done"]
  /\ UNCHANGED <<table, now, args, hist, others>>

\* top of the loop body with the database in state db: get_latest_date, the
\* window, the fetcher
ResolveSymbolWith(p, db) ==
  /\ pc[p] = "symbol"
  /\ loc[p].i <= Len(args[p].assets)
  /\   LET a      == args[p]
           latest == GetLatestDate(table, Symbol(p), db)
           w      == ResolveWindow(latest, a.historical, a.custom_start_date,
                                   a.custom_end_date, Today)
           skip   == FetcherSkipped(a.fetcher_class, a.alpha_vantage_api_key,
                                    a.coin_market_api_key)
       IN  /\ loc' = [loc EXCEPT ![p] =
                 [@ EXCEPT !.symbol = Symbol(p), !.latest_date_db = latest, !.w = w,
                           !.df = {},
                           !.data_to_insert = {}, !.pending = {},
                           !.i = IF skip THEN @ + 1 ELSE @]]
           /\ hist' = [hist EXCEPT ![p] =
                 [@ EXCEPT !.kind = "none", !.fetched = {}, !.snap = table,
                           !.called_at = None, !.price = 0, !.output_size = "none",
                           !.today = Today,
                           !.outcome = IF skip THEN "skipped" ELSE "none"]]
           /\ pc' = [pc EXCEPT ![p] = IF skip THEN "symbol" ELSE "fetch"]
  /\ UNCHANGED <<table, now, args, others>>

ResolveSymbol(p) ==
  /\ pc[p] = "symbol"
  /\ \E db \in DbStates : ResolveSymbolWith(p, db)

\* the fetcher is called, at `now`, and the source answers resp at
\* answered_at: the call waits in its request (and in time.sleep) meanwhile.
\* A fetcher that reads no clock after the answer returns in the same step:
\* the result is filtered and, unless empty, handed to the comprehension that
\* builds data_to_insert.  A CoinMarketCap quote is held in `response` until
\* its bar is stamped
FetchWith(p, resp, answered_at) ==
  /\ pc[p] = "fetch"
  /\ now' = answered_at
  /\   LET later == StampsAfterAnswer(args[p].fetcher_class,
                                     args[p].coin_market_api_key, resp)
           r  == FetchData(args[p].fetcher_class, loc[p].symbol, args[p], loc[p].w, now, resp)
           df == LocalFilter(r.df, loc[p].w.filter_date)
       IN  /\ hist' = [hist EXCEPT ![p] =
                 [@ EXCEPT !.attempted = @ \cup {loc[p].i},
                           !.fetches[loc[p].i] = @ + 1,
                           !.called_at = now,
                           !.output_size =
                              IF args[p].fetcher_class = "AlphaVantageFetcher"
                                THEN OutputSize(IsFullHistoricalAv(loc[p].w.start_date,
                                                                   args[p].custom_start_date))
                                ELSE "none",
                           !.unpaused = @ \/ (hist[p].attempted # {} /\ ~hist[p].slept),
                           !.slept = SleepsAfterRequest(args[p].fetcher_class, resp),
                           !.kind = IF later THEN @ ELSE resp.kind,
                           !.price = IF later THEN @ ELSE resp.price,
                           !.fetched = IF later THEN @ ELSE r.df,
                           !.outcome = IF later THEN @
                                       ELSE IF r.raised THEN "raised"
                                       ELSE IF DfEmpty(df) THEN "empty" ELSE "none"]]
           /\ loc' = [loc EXCEPT ![p] =
                 IF later THEN [@ EXCEPT !.response = resp]
                 ELSE [@ EXCEPT !.df = df,
                                !.data_to_insert = {},
                                !.i = IF ~r.raised /\ DfEmpty(df) THEN @ + 1 ELSE @]]
           /\ pc' = [pc EXCEPT ![p] =
                 IF later THEN "quote"
                 ELSE IF r.raised THEN "aborted"
                 ELSE IF DfEmpty(df) THEN "symbol" ELSE "rows"]
  /\ UNCHANGED <<table, args, others>>

\* CoinMarketCapFetcher.fetch_data with the quote in hand: the bar is stamped
\* with datetime.now() as it is by then and the frame returned; load_data
\* filters it and, unless empty, hands it to the comprehension
StampQuote(p) ==
  /\ pc[p] = "quote"
  /\   LET resp == loc[p].response
           r  == FetchData(args[p].fetcher_class, loc[p].symbol, args[p], loc[p].w, now, resp)
           df == LocalFilter(r.df, loc[p].w.filter_date)
       IN  /\ hist' = [hist EXCEPT ![p] =
                 [@ EXCEPT !.kind = resp.kind,
                           !.price = resp.price,
                           !.fetched = r.df,
                           !.outcome = IF DfEmpty(df) THEN "empty" ELSE "none"]]
           /\ loc' = [loc EXCEPT ![p] =
                 [@ EXCEPT !.response = NoResponse,
                           !.df = df,
                           !.data_to_insert = {},
                           !.i = IF DfEmpty(df) THEN @ + 1 ELSE @]]
           /\ pc' = [pc EXCEPT ![p] = IF DfEmpty(df) THEN "symbol" ELSE "rows"]
  /\ UNCHANGED <<table, now, args, others>>

\* the times an answer can come at: the clock may have advanced while the
\* request was out
AnswerTimes == { t \in now..(now + 1) : t <= MaxNow }

\* the source answers with what it holds when it answers
Fetch(p) ==
  /\ pc[p] = "fetch"
  /\ \E answered_at \in AnswerTimes :
       \E resp \in Responses(args[p].fetcher_class, DtDate(answered_at)) :
         FetchWith(p, resp, answered_at)

\* the rows df.iterrows() can come to next: the frame keeps the order the
\* source answered its bars in (the keys of the JSON body, the index of
\* ticker.history), which is the source's choice, so any row still left
NextRows(df, tuples) == RowsLeft(df, tuples)

\* one turn of the comprehension over df.iterrows(): the tuple of the next
\* row, stamped with datetime.now() as it is at that turn.
\* loc.data_to_insert is the list so far; after the last row (at once, over
\* a frame with no row) the statement follows
AppendRow(p) ==
  /\ pc[p] = "rows"
  /\ \E turn \in IF loc[p].df = {} THEN { {} }
                  ELSE { { InsertTuple(row, now) } :
                           row \in NextRows(loc[p].df, loc[p].data_to_insert) } :
       LET tuples == loc[p].data_to_insert \cup turn
       IN  /\ loc' = [loc EXCEPT ![p].data_to_insert = tuples]
           /\ pc' = [pc EXCEPT ![p] =
                 IF RowsLeft(loc[p].df, tuples) = {} THEN "upsert" ELSE "rows"]
  /\ UNCHANGED <<table, now, args, hist, others>>

\* execute_values: the statement runs inside the connection's transaction
ExecuteValuesOk(p) ==
  /\ pc[p] = "upsert"
  /\ ~HasDuplicateKey(loc[p].data_to_insert)
  /\ loc' = [loc EXCEPT ![p].pending = loc[p].data_to_insert]
  /\ pc' = [pc EXCEPT ![p] = "commit"]
  /\ hist' = [hist EXCEPT ![p].upserts[loc[p].i] = @ + 1]
  /\ UNCHANGED <<table, now, args, others>>

\* execute_values raises
ExecuteValuesRaise(p) ==
  /\ pc[p] = "upsert"
  /\ pc' = [pc EXCEPT ![p] = "rollback"]
  /\ hist' = [hist EXCEPT ![p].upserts[loc[p].i] = @ + 1]
  /\ UNCHANGED <<table, now, args, loc, others>>

ExecuteValues(p) == ExecuteValuesOk(p) \/ ExecuteValuesRaise(p)

\* conn.commit(): the transaction's rows reach the table
CommitOk(p) ==
  /\ pc[p] = "commit"
  /\ table' = Upsert(table, loc[p].pending)
  /\ loc' = [loc EXCEPT ![p] = [@ EXCEPT !.pending = {}, !.i = @ + 1]]
  /\ hist' = [hist EXCEPT ![p] =
        [@ EXCEPT !.outcome = "committed", !.committed = @ \cup {loc[p].i}]]
  /\ pc' = [pc EXCEPT ![p] = "symbol"]
  /\ UNCHANGED <<now, args, others>>

\* conn.commit() raises
CommitRaise(p) ==
  /\ pc[p] = "commit"
  /\ pc' = [pc EXCEPT ![p] = "rollback"]
  /\ UNCHANGED <<table, now, args, loc, hist, others>>

Commit(p) == CommitOk(p) \/ CommitRaise(p)

\* variant: the failed transaction's rows reach the table all the same
RollbackKeepsBatch(p) ==
  /\ pc[p] = "rollback"
  /\ table' = Upsert(table, loc[p].pending)
  /\ loc' = [loc EXCEPT ![p] = [@ EXCEPT !.pending = {}, !.i = @ + 1]]
  /\ hist' = [hist EXCEPT ![p].outcome = "rolled_back"]
  /\ pc' = [pc EXCEPT ![p] = "symbol"]
  /\ UNCHANGED <<now, args, others>>

\* variant: after the rollback the statement is tried again
RollbackRetry(p) ==
  /\ pc[p] = "rollback"
  /\ loc' = [loc EXCEPT ![p].pending = {}]
  /\ hist' = [hist EXCEPT ![p].outcome = "rolled_back"]
  /\ pc' = [pc EXCEPT ![p] = "upsert"]
  /\ UNCHANGED <<table, now, args, others>>

\* the except branch: conn.rollback(), then the next symbol
RollbackOk(p) ==
  /\ pc[p] = "rollback"
  /\ loc' = [loc EXCEPT ![p] = [@ EXCEPT !.pending = {}, !.i = @ + 1]]
  /\ hist' = [hist EXCEPT ![p].outcome = "rolled_back"]
  /\ pc' = [pc EXCEPT ![p] = "symbol"]
  /\ UNCHANGED <<table, now, args, others>>

\* conn.rollback() raises (the connection is gone, and its transaction with
\* it): the exception leaves the except branch and load_data
RollbackRaise(p) ==
  /\ pc[p] = "rollback"
  /\ loc' = [loc EXCEPT ![p].pending = {}]
  /\ hist' = [hist EXCEPT ![p].outcome = "rollback_raised"]
  /\ pc' = [pc EXCEPT ![p] = "aborted"]
  /\ UNCHANGED <<table, now, args, others>>

Rollback(p) == RollbackOk(p) \/ RollbackRaise(p)

Step(p) ==
  \/ StartRun(p)
  \/ ResolveSymbol(p)
  \/ Fetch(p)
  \/ StampQuote(p)
  \/ AppendRow(p)
  \/ ExecuteValues(p)
  \/ Commit(p)
  \/ Rollback(p)
  \/ Finish(p)

\* daily_update.py, line 7: `loader.load_data(assets=assets_to_update,
\* historical=False)` is the script's first statement, above its imports, so
\* the name `loader` is unbound and the script ends with a NameError; lines
\* 9-24 (the imports, the two load_data calls, the final print) never run
DailyUpdateLine7 ==
  /\ script.pc = "line7"
  /\ script' = [script EXCEPT !.pc = "crashed", !.error = "NameError"]
  /\ UNCHANGED <<table, now, pc, args, loc, hist, secret, fixed>>

\* one load_data run at a time, or the script
Next == Tick \/ Step("run1") \/ DailyUpdateLine7

Spec == Init /\ [][Next]_vars

\* ------------------------------------ two concurrent runs of one load
\* Two callers start load_data with the same arguments against one table.
\* Each run has its own connection and transaction; a transaction's rows
\* reach the table at its commit, so of two commits on one key the later one
\* is what stays.  The sources give both runs the same answer, the database
\* does not fail, and the day does not change while the runs go on.
ConcNow == ToDatetime(StartDay)

\* the arguments the pair is given; with a custom start the historical
\* flag is not read, so it is left FALSE
ConcArgs ==
  { a \in { [fetcher_class |-> fc, assets |-> as, historical |-> h,
             custom_start_date |-> cw[1], custom_end_date |-> cw[2],
             alpha_vantage_api_key |-> TRUE, coin_market_api_key |-> TRUE] :
            fc \in Fetchers, as \in AssetLists, h \in BOOLEAN,
            cw \in { <<None, None>>, <<EPOCH, None>> } } :
      a.custom_start_date # None => ~a.historical }

\* the tables the pair starts on: rows of the first symbol of the list; the
\* second symbol is new to the table
ConcTables == { t \in StoredTables : \A r \in t : r.symbol = "MSFT" }

\* the answers a source gives to every request of the pair: a refusal, or
\* bars of the day of the runs, with or without the day before, and prices
\* other than the stored ones
ConcResponses(fetcher_class) ==
  { r \in Responses(fetcher_class, StartDay) :
      \/ r.kind = "bad_status"
      \/ /\ r.kind = "ok"
         /\ r.series = NoSeries \/ StartDay \in DOMAIN r.series
         /\ \A d \in DOMAIN r.series : d + 1 >= StartDay
         /\ r.price # OldQuote.open_price
         /\ \A d \in DOMAIN r.series :
              IF fetcher_class = "AlphaVantageFetcher"
                THEN r.series[d] # Values(OldQuote)
                ELSE r.series[d] # OldQuote }

InitConc ==
  /\ table \in ConcTables
  /\ now = ConcNow
  /\ pc = [p \in Procs |-> "idle"]
  /\ args = [p \in Procs |-> NoArgs]
  /\ loc = [p \in Procs |-> NoLoc]
  /\ hist = [p \in Procs |-> NoHist]
  /\ secret = NoSecret
  /\ script = NoScript
  /\ \E a \in ConcArgs : \E resp \in ConcResponses(a.fetcher_class) :
       fixed = [on |-> TRUE, table0 |-> table, a |-> a, resp |-> resp]

\* time passes within the day, once
TickWithinDay ==
  /\ now = ConcNow
  /\ DtDate(now + 1) = DtDate(now)
  /\ now' = now + 1
  /\ UNCHANGED <<table, pc, args, loc, hist, others>>

ConcStartRun(p) == StartRunWith(p, fixed.a, "ok", "returned")
ConcResolveSymbol(p) == ResolveSymbolWith(p, "ok")
ConcFetch(p) == FetchWith(p, fixed.resp, now)

ConcStep(p) ==
  \/ ConcStartRun(p)
  \/ ConcResolveSymbol(p)
  \/ ConcFetch(p)
  \/ StampQuote(p)
  \/ AppendRow(p)
  \/ ExecuteValuesOk(p)
  \/ CommitOk(p)
  \/ Finish(p)

NextConc == TickWithinDay \/ ConcStep("run1") \/ ConcStep("run2")

SpecConc == InitConc /\ [][NextConc]_vars

\* -------------------------------------------- get_secret on its own
\* a key is asked for under some contents of the two stores
InitSecret ==
  /\ table = {}
  /\ now = StartNow
  /\ pc = [p \in Procs |-> "idle"]
  /\ args = [p \in Procs |-> NoArgs]
  /\ loc = [p \in Procs |-> NoLoc]
  /\ hist = [p \in Procs |-> NoHist]
  /\ script = NoScript
  /\ fixed = NoFixed
  /\ secret \in { [NoSecret EXCEPT !.key = k, !.environ = e, !.streamlit_env = se,
                                   !.has_secrets = hs, !.secrets = c] :
                    k \in SecretKeys, e \in [SecretKeys -> EnvValues],
                    se \in BOOLEAN, hs \in BOOLEAN, c \in [SecretKeys -> CloudValues] }

\* get_secret(key) runs: it returns a value or None, or the hosted lookup
\* raises and the exception leaves it
GetSecretCall ==
  /\ secret.key \in SecretKeys
  /\ ~secret.returned /\ ~secret.raised
  /\ LET r == GetSecret(secret.key, secret.environ, secret.streamlit_env,
                        secret.has_secrets, secret.secrets)
     IN  secret' = [secret EXCEPT !.returned = ~r.raised, !.raised = r.raised,
                                  !.value = r.value]
  /\ UNCHANGED <<table, now, pc, args, loc, hist, script, fixed>>

NextSecret == GetSecretCall

SpecSecret == InitSecret /\ [][NextSecret]_vars

\* ================================================================ claims
\* the rows as (date, symbol, value columns), load_timestamp left out
Proj(r) ==
  <<r.timestamp, r.symbol, r.open_price, r.high_price, r.low_price,
    r.close_price, r.volume>>

\* a DataFrame row as the same tuple, its timestamp taken as a date
ProjDf(x) ==
  <<DtDate(x.timestamp), x.symbol, x.open_price, x.high_price, x.low_price,
    x.close_price, x.volume>>

\* the symbol in hand has been resolved (the loop body is past step 1)
Resolved(p) == loc[p].w.mode # "none"

\* the latest date the table held for the symbol in hand when its turn began
LatestStored(p) == SelectMaxTimestamp(hist[p].snap, loc[p].symbol)

\* C1: the stock_prices table never holds two rows with the same
\* (timestamp, symbol), whatever runs, fetch results, failed batches and
\* rollbacks came before.
C1_OneRowPerKey ==
  \A r1 \in table, r2 \in table : Key(r1) = Key(r2) => r1 = r2

\* C1 witness: a batch was committed over keys the table already held.
C1_Witness ==
  \E p \in Procs :
    /\ hist[p].outcome = "committed"
    /\ \E b \in loc[p].data_to_insert, r \in hist[p].snap : Key(Stored(b)) = Key(r)
    /\ Cardinality(table) >= 2

\* C2: once a batch is committed, every key of the batch that was stored
\* before has exactly one row, and that row carries the batch's open, high,
\* low, close, volume and load_timestamp.
C2_LaterWriteWins ==
  \A p \in Procs :
    hist[p].outcome = "committed" =>
      \A b \in loc[p].data_to_insert :
        (\E r \in hist[p].snap : Key(r) = Key(Stored(b))) =>
          { r \in table : Key(r) = Key(Stored(b)) } = { Stored(b) }

\* C2 witness: a committed bar hit a stored key with a different price and a
\* different load_timestamp.
C2_Witness ==
  \E p \in Procs :
    /\ hist[p].outcome = "committed"
    /\ \E b \in loc[p].data_to_insert, r \in hist[p].snap :
         /\ Key(r) = Key(Stored(b))
         /\ r.close_price # b.close_price
         /\ r.load_timestamp # b.load_timestamp

\* C3: in an incremental load with the Alpha Vantage fetcher, the rows kept
\* from a fetch that returned, and the batch once it is built from them, are
\* exactly the fetched rows dated strictly after the latest stored date D,
\* and when the batch is committed the rows the table gained or changed are
\* exactly those rows.
C3_FilterKeepsNewerOnly ==
  \A p \in Procs :
    ( /\ args[p].fetcher_class = "AlphaVantageFetcher"
      /\ loc[p].w.mode = "incremental"
      /\ hist[p].kind \in {"ok", "bar_lacks_field"} ) =>
      LET D     == LatestStored(p)
          newer == { ProjDf(x) : x \in { y \in hist[p].fetched : DtDate(y.timestamp) > D } }
      IN  /\ D # None /\ loc[p].w.filter_date = D
          /\ { ProjDf(x) : x \in loc[p].df } = newer
          /\ pc[p] # "rows" => { ProjDf(b) : b \in loc[p].data_to_insert } = newer
          /\ hist[p].outcome = "committed" =>
               { Proj(r) : r \in table \ hist[p].snap } = newer
          /\ hist[p].outcome # "committed" => table = hist[p].snap

\* C3 witness: the fetch answered rows on both sides of D and the newer ones
\* were committed.
C3_Witness ==
  \E p \in Procs :
    /\ args[p].fetcher_class = "AlphaVantageFetcher"
    /\ loc[p].w.mode = "incremental"
    /\ hist[p].outcome = "committed"
    /\ \E x \in hist[p].fetched : DtDate(x.timestamp) < LatestStored(p)
    /\ \E x \in hist[p].fetched : DtDate(x.timestamp) = LatestStored(p)
    /\ \E x \in hist[p].fetched : DtDate(x.timestamp) > LatestStored(p)

\* C4: for a symbol whose latest stored date is D, with no custom start and
\* the forced-historical flag false, load_data resolves incremental mode with
\* start = D + 1 and end = today.
C4_IncrementalFromStored ==
  \A p \in Procs :
    ( /\ Resolved(p)
      /\ args[p].custom_start_date = None
      /\ ~args[p].historical
      /\ LatestStored(p) # None ) =>
      /\ loc[p].w.mode = "incremental"
      /\ loc[p].w.start_date = LatestStored(p) + 1
      /\ loc[p].w.end_date = hist[p].today

\* C5: with no custom start, load_data resolves full-historical mode from the
\* epoch with no end bound for a symbol with no stored row, and for every
\* symbol when the forced-historical flag is set.
C5_FullHistorical ==
  \A p \in Procs :
    ( /\ Resolved(p)
      /\ args[p].custom_start_date = None
      /\ (args[p].historical \/ LatestStored(p) = None) ) =>
      /\ loc[p].w.mode = "historical"
      /\ loc[p].w.start_date = EPOCH
      /\ loc[p].w.end_date = None

\* C5 witness: the forced flag sent a symbol with stored rows to
\* full-historical mode, after a read of its latest date that succeeded.
C5_Witness ==
  \E p \in Procs :
    /\ Resolved(p)
    /\ args[p].custom_start_date = None
    /\ args[p].historical
    /\ LatestStored(p) # None
    /\ loc[p].latest_date_db = LatestStored(p)
    /\ loc[p].w.mode = "historical"

\* C6: whenever a custom start date is given, load_data resolves custom-range
\* mode with start = the custom start and end = the custom end, or today
\* when no custom end is given.
C6_CustomStartWins ==
  \A p \in Procs :
    ( Resolved(p) /\ args[p].custom_start_date # None ) =>
      /\ loc[p].w.mode = "custom"
      /\ loc[p].w.start_date = args[p].custom_start_date
      /\ loc[p].w.end_date =
           IF args[p].custom_end_date # None THEN args[p].custom_end_date
                                             ELSE hist[p].today

\* C6 witness: a custom start with no custom end, the forced flag set and
\* rows stored for the symbol.
C6_Witness ==
  \E p \in Procs :
    /\ Resolved(p)
    /\ args[p].custom_start_date # None
    /\ args[p].custom_end_date = None
    /\ args[p].historical
    /\ loc[p].latest_date_db # None
    /\ loc[p].w.end_date = hist[p].today

\* C7: a fetch that met a transport error, a non-success status, a body
\* that is not JSON, a missing response field, a bar without one of its
\* values or with a value that is no number, or an unknown symbol returns an
\* empty result, and no exception leaves fetch_data.
C7_FailureGivesEmpty ==
  \A p \in Procs :
    hist[p].kind \in FailureKinds \cup BarDefects =>
      /\ hist[p].fetched = {}
      /\ hist[p].outcome # "raised"
      /\ pc[p] # "aborted"

\* C8: when the upsert of a symbol's batch raised, none of the batch's rows
\* is in the table and the rows committed for earlier symbols of the run are
\* as they were: the table is what it was when the symbol's turn began,
\* whether the rollback went through or raised in its turn.
C8_RollbackLeavesTable ==
  \A p \in Procs :
    ( pc[p] = "rollback" \/ hist[p].outcome \in {"rolled_back", "rollback_raised"} ) =>
      /\ table = hist[p].snap
      /\ hist[p].outcome # "none" => loc[p].pending = {}

\* C8 witness: the second symbol's batch was rolled back after the first
\* symbol's batch had been committed.
C8_Witness ==
  \E p \in Procs :
    /\ hist[p].outcome = "rolled_back"
    /\ hist[p].committed = {1}
    /\ loc[p].i = 3
    /\ loc[p].data_to_insert # {}

\* C9: a run whose connection opened and whose fetcher had its API key ends
\* with the fetcher invoked for every symbol of the list.
C9_EverySymbolAttempted ==
  \A p \in Procs :
    ( /\ pc[p] \in {"done", "aborted"}
      /\ loc[p].conn # "none"
      /\ ~FetcherSkipped(args[p].fetcher_class, args[p].alpha_vantage_api_key,
                         args[p].coin_market_api_key) ) =>
      hist[p].attempted = 1..Len(args[p].assets)

\* C10: a run whose connection could not be opened has ended with no fetcher
\* invoked and the table as it was.
C10_NoConnectionAborts ==
  \A p \in Procs :
    ( pc[p] # "idle" /\ loc[p].conn = "none" ) =>
      /\ pc[p] = "done"
      /\ hist[p].attempted = {}
      /\ table = hist[p].snap

\* C10 witness: a two-symbol run ended at the failed connection.
C10_Witness ==
  \E p \in Procs :
    /\ pc[p] = "done"
    /\ loc[p].conn = "none"
    /\ Len(args[p].assets) = 2
    /\ table # {}

\* C11: when load_data has ended, by return or by an exception, the
\* connection it opened is closed.  (get_latest_date and get_data close
\* theirs in a finally block.)
C11_ConnectionClosedAtEnd ==
  \A p \in Procs :
    pc[p] \in {"done", "aborted"} => loc[p].conn # "open"

\* the rows the table holds for a symbol
RowsOf(tbl, symbol) == { r \in tbl : r.symbol = symbol }

\* C12: for a symbol with no stored row, a full-historical load whose fetch
\* returned N bars on N distinct dates and whose batch was committed leaves
\* exactly N rows stored for the symbol, one per fetched date, with the
\* fetched values.
C12_FirstLoadStoresAll ==
  \A p \in Procs :
    ( /\ loc[p].w.mode = "historical"
      /\ LatestStored(p) = None
      /\ hist[p].outcome = "committed" ) =>
      LET rows == RowsOf(table, loc[p].symbol)
      IN  /\ Cardinality(rows) = Cardinality(hist[p].fetched)
          /\ { Proj(r) : r \in rows } = { ProjDf(x) : x \in hist[p].fetched }
          /\ \A x \in hist[p].fetched :
               Cardinality({ r \in rows : r.timestamp = DtDate(x.timestamp) }) = 1

\* C12 witness: three bars on three dates were fetched for a symbol with no
\* stored row and committed.
C12_Witness ==
  \E p \in Procs :
    /\ loc[p].w.mode = "historical"
    /\ LatestStored(p) = None
    /\ hist[p].outcome = "committed"
    /\ Cardinality(hist[p].fetched) = 3
    /\ Cardinality({ DtDate(x.timestamp) : x \in hist[p].fetched }) = 3

\* C13: when the fetch of a symbol returned and its result is empty, as
\* returned or after the filter, no upsert statement runs for the symbol, the
\* table is as it was, no error leaves the loop body and the loop is at the
\* next symbol.
C13_EmptyResultSkipped ==
  \A p \in Procs :
    ( /\ hist[p].kind # "none"
      /\ hist[p].outcome # "raised"
      /\ loc[p].df = {} ) =>
      /\ hist[p].outcome = "empty"
      /\ hist[p].upserts[loc[p].i - 1] = 0
      /\ loc[p].data_to_insert = {} /\ loc[p].pending = {}
      /\ table = hist[p].snap
      /\ pc[p] \in {"symbol", "done"}
      /\ hist[p].attempted = 1 .. (loc[p].i - 1)

\* C13 witness: the first of two symbols fetched rows that the filter all
\* dropped, and the loop stands at the second symbol.
C13_Witness ==
  \E p \in Procs :
    /\ hist[p].kind = "ok"
    /\ hist[p].fetched # {}
    /\ loc[p].df = {}
    /\ hist[p].outcome = "empty"
    /\ Len(args[p].assets) = 2
    /\ loc[p].i = 2
    /\ pc[p] = "symbol"

\* C14: in incremental mode, when the day after the latest stored date is
\* after today (at the resolve and still now), the fetcher was invoked all
\* the same, its filtered result is empty, no row was written, no error was
\* raised and the loop is at the next symbol.
C14_UpToDateFetchesNothing ==
  \A p \in Procs :
    ( /\ loc[p].w.mode = "incremental"
      /\ loc[p].w.start_date > Today
      /\ hist[p].outcome # "skipped"
      /\ pc[p] # "fetch" ) =>
      /\ hist[p].outcome = "empty"
      /\ pc[p] \in {"symbol", "done"}
      /\ hist[p].fetches[loc[p].i - 1] = 1
      /\ loc[p].df = {}
      /\ table = hist[p].snap

\* C15, as claimed: a successful quote of the CoinMarketCap fetcher is
\* exactly one bar: open, high, low and close all the quoted price, volume 0,
\* the symbol the requested one and the timestamp the time at which the
\* fetcher was called, whatever window load_data resolved.
C15_LatestOnlySnapshot ==
  \A p \in Procs :
    ( /\ args[p].fetcher_class = "CoinMarketCapFetcher"
      /\ hist[p].kind = "ok" ) =>
      hist[p].fetched =
        { [timestamp |-> hist[p].called_at, symbol |-> loc[p].symbol,
           open_price |-> hist[p].price, high_price |-> hist[p].price,
           low_price |-> hist[p].price, close_price |-> hist[p].price,
           volume |-> 0] }

\* C15, amended: a successful quote of the CoinMarketCap fetcher is exactly
\* one bar: open, high, low and close all the quoted price, volume 0, the
\* symbol the requested one, and the timestamp a reading of the clock taken
\* within the call, once the answer is in hand: never before the time the
\* fetcher was called and never after the present, whatever window load_data
\* resolved.
C15_SnapshotStampedInCall ==
  \A p \in Procs :
    ( /\ args[p].fetcher_class = "CoinMarketCapFetcher"
      /\ hist[p].kind = "ok" ) =>
      /\ Cardinality(hist[p].fetched) = 1
      /\ \A b \in hist[p].fetched :
           /\ b = [timestamp |-> b.timestamp, symbol |-> loc[p].symbol,
                   open_price |-> hist[p].price, high_price |-> hist[p].price,
                   low_price |-> hist[p].price, close_price |-> hist[p].price,
                   volume |-> 0]
           /\ hist[p].called_at <= b.timestamp
           /\ b.timestamp <= now

\* C15 witness: a quote asked for late in a day under a custom window that
\* starts after that day, answered and stamped after midnight.
C15_Witness ==
  \E p \in Procs :
    /\ args[p].fetcher_class = "CoinMarketCapFetcher"
    /\ hist[p].kind = "ok"
    /\ loc[p].w.mode = "custom"
    /\ loc[p].w.start_date > DtDate(hist[p].called_at)
    /\ hist[p].called_at # ToDatetime(DtDate(hist[p].called_at))
    /\ \E b \in hist[p].fetched : DtDate(b.timestamp) > DtDate(hist[p].called_at)

\* C16: within one run every entry of the symbol list causes at most one
\* fetcher invocation and at most one upsert statement, also after a failed
\* fetch, a throttled fetch or a failed statement.
C16_NoRetry ==
  \A p \in Procs :
    \A k \in DOMAIN hist[p].fetches :
      /\ hist[p].fetches[k] <= 1
      /\ hist[p].upserts[k] <= 1
      /\ hist[p].upserts[k] <= hist[p].fetches[k]

\* C16 witness: a run of two symbols is over; the second symbol's statement
\* failed and was rolled back, and each symbol was fetched once.
C16_Witness ==
  \E p \in Procs :
    /\ pc[p] = "done"
    /\ hist[p].outcome = "rolled_back"
    /\ hist[p].fetches = <<1, 1>>
    /\ hist[p].upserts[2] = 1

\* the sources with a request quota
QuotaLimited == {"AlphaVantageFetcher", "CoinMarketCapFetcher"}

\* C17: in a run with a quota-limited source, every API request after the
\* first came after a pause that followed the request before it.
C17_PauseBetweenRequests ==
  \A p \in Procs :
    args[p].fetcher_class \in QuotaLimited => ~hist[p].unpaused

\* C18: a call of get_secret(key) that is over has returned: the local
\* environment value of the key whenever it has one (a non-empty value), also
\* when the hosted store holds one for the key; the hosted value only when
\* the key has no local value; and None when neither store has a value.
C18_LocalSecretFirst ==
  (secret.returned \/ secret.raised) =>
    LET l      == secret.environ[secret.key]
        c      == secret.secrets[secret.key]
        hosted == /\ secret.streamlit_env /\ secret.has_secrets
                  /\ Truthy(c) /\ c # "FileNotFoundError"
    IN  /\ secret.returned
        /\ Truthy(l) => secret.value = l
        /\ (~Truthy(l) /\ hosted) => secret.value = c
        /\ secret.value = "cloud" => ~Truthy(l)
        /\ (~Truthy(l) /\ ~hosted) => secret.value = "None"

\* C20: once the daily_update script has ended, it has made, in this order,
\* an incremental load of MSFT, KO, JPM, GLD, SLV with AlphaVantageFetcher
\* and an incremental load of BTC, ETH with YahooFinanceFetcher, and has
\* reached its final step 'Daily update complete.'.
C20_DailyUpdateRunsBothLoads ==
  script.pc \notin {"none", "line7"} =>
    /\ script.calls = <<StocksLoad, CryptosLoad>>
    /\ script.pc = "complete"
    /\ script.error = "none"

\* what one run alone, with no failure, leaves in the table: symbol i and
\* the symbols after it, loaded at one time
RECURSIVE SingleRunFrom(_, _, _, _, _)
SingleRunFrom(tbl, a, i, resp, clock) ==
  IF i > Len(a.assets) THEN tbl
  ELSE LET symbol == a.assets[i]
           w  == ResolveWindow(GetLatestDate(tbl, symbol, "ok"), a.historical,
                               a.custom_start_date, a.custom_end_date, DtDate(clock))
           r  == FetchData(a.fetcher_class, symbol, a, w, clock, resp)
           df == LocalFilter(r.df, w.filter_date)
       IN  SingleRunFrom(Upsert(tbl, { InsertTuple(row, clock) : row \in df }), a, i + 1, resp, clock)

\* C19: two runs of load_data with the same arguments, concurrent on one
\* table and given the same bars by their fetchers: whatever the interleaving
\* of their reads, fetches, upserts and commits, the table never holds two
\* rows with one (timestamp, symbol), and when both runs are over it holds
\* the keys and the price values one run alone would have left.
C19_ConcurrentRunsAsOne ==
  /\ \A r1 \in table, r2 \in table : Key(r1) = Key(r2) => r1 = r2
  /\ (\A p \in Procs : pc[p] = "done") =>
       { Proj(r) : r \in table }
         = { Proj(r) : r \in SingleRunFrom(fixed.table0, fixed.a, 1, fixed.resp, ConcNow) }

\* C19 witness: both runs are over; each committed rows for the same symbol,
\* at different times, over a row stored before, and the table changed.
C19_Witness ==
  /\ \A p \in Procs : pc[p] = "done" /\ hist[p].committed # {}
  /\ hist["run1"].called_at # hist["run2"].called_at
  /\ table # fixed.table0
  /\ \E r \in fixed.table0 : r \notin table

\* C21: while a symbol is processed in incremental mode, latest stored date
\* D, every row of the batch, whichever the fetcher, is a row of that symbol
\* dated strictly after D, and every row the table held when the symbol's
\* turn began, of that symbol or another, is still in the table unchanged.
C21_IncrementalWritesOnlyNewer ==
  \A p \in Procs :
    loc[p].w.mode = "incremental" =>
      LET D == LatestStored(p)
      IN  /\ D # None /\ loc[p].latest_date_db = D
          /\ \A b \in loc[p].data_to_insert \cup loc[p].pending :
               /\ DtDate(b.timestamp) > D
               /\ b.symbol = loc[p].symbol
          /\ \A r \in table \ hist[p].snap :
               r.timestamp > D /\ r.symbol = loc[p].symbol
          /\ hist[p].snap \subseteq table

\* C21 witness: an incremental load committed rows after a fetch that also
\* answered a bar on the latest stored date with other prices, while the
\* table held a row of another symbol.
C21_Witness ==
  \E p \in Procs :
    /\ loc[p].w.mode = "incremental"
    /\ hist[p].outcome = "committed"
    /\ table # hist[p].snap
    /\ \E x \in hist[p].fetched, r \in hist[p].snap :
         /\ DtDate(x.timestamp) = r.timestamp /\ x.symbol = r.symbol
         /\ r.timestamp = LatestStored(p)
         /\ x.close_price # r.close_price
    /\ \E r \in hist[p].snap : r.symbol # loc[p].symbol

\* the rows a symbol's turn has handed to the table or is about to
Written(p) ==
  { Stored(b) : b \in loc[p].data_to_insert } \cup (table \ hist[p].snap)

\* C22, as stated: in custom-range mode every row load_data persists has a
\* date within the resolved window, start <= date <= end, whichever the
\* fetcher.
C22_CustomRowsInWindow ==
  \A p \in Procs :
    loc[p].w.mode = "custom" =>
      \A r \in Written(p) :
        loc[p].w.start_date <= r.timestamp /\ r.timestamp <= loc[p].w.end_date

\* C22, amended: in custom-range mode every row persisted with the Yahoo
\* Finance fetcher has start <= date < end; with the Alpha Vantage and the
\* CoinMarketCap fetcher the window is not applied, the batch is every
\* fetched bar.
C22_CustomRowsInWindowYahoo ==
  \A p \in Procs :
    loc[p].w.mode = "custom" =>
      /\ args[p].fetcher_class = "YahooFinanceFetcher" =>
           \A r \in Written(p) :
             loc[p].w.start_date <= r.timestamp /\ r.timestamp < loc[p].w.end_date
      /\ (args[p].fetcher_class # "YahooFinanceFetcher" /\ pc[p] # "rows") =>
           { ProjDf(b) : b \in loc[p].data_to_insert }
             = { ProjDf(x) : x \in hist[p].fetched }

\* C22 witness: a custom-range load with the Yahoo Finance fetcher, both
\* ends of the window given, committed rows.
C22_Witness ==
  \E p \in Procs :
    /\ loc[p].w.mode = "custom"
    /\ args[p].fetcher_class = "YahooFinanceFetcher"
    /\ args[p].custom_end_date # None
    /\ hist[p].outcome = "committed"
    /\ table # hist[p].snap

\* C23: load_data calls the Alpha Vantage fetcher with the full-history flag
\* (output size 'full') exactly when the resolved mode is full-historical,
\* and with the compact flag in every incremental and custom-range load,
\* whatever the latest stored date.
C23_FullFlagIffHistorical ==
  \A p \in Procs :
    ( /\ args[p].fetcher_class = "AlphaVantageFetcher"
      /\ hist[p].kind # "none" ) =>
      /\ hist[p].output_size = "full" <=> loc[p].w.mode = "historical"
      /\ hist[p].output_size = "compact" <=> loc[p].w.mode \in {"incremental", "custom"}

\* C24: without the forced-historical flag and without a custom start,
\* full-historical mode is resolved for a symbol only if the table holds no
\* row of the symbol, also when the read of the latest stored date failed.
C24_HistoricalOnlyWhenNothingStored ==
  \A p \in Procs :
    ( /\ Resolved(p)
      /\ ~args[p].historical
      /\ args[p].custom_start_date = None
      /\ loc[p].w.mode = "historical" ) =>
      RowsOf(hist[p].snap, loc[p].symbol) = {}

\* C25: with the CoinMarketCap fetcher, no custom start and the
\* forced-historical flag false, a successful fetch hands the snapshot bar to
\* the upsert if and only if the symbol has no stored row or the day of the
\* call is strictly after the symbol's latest stored date; a snapshot taken
\* on the latest stored date is dropped and the stored row stays as it was.
C25_SnapshotPersistedIffNewer ==
  \A p \in Procs :
    ( /\ args[p].fetcher_class = "CoinMarketCapFetcher"
      /\ args[p].custom_start_date = None
      /\ ~args[p].historical
      /\ hist[p].kind = "ok" ) =>
      LET D     == LatestStored(p)
          newer == D = None \/ DtDate(hist[p].called_at) > D
      IN  /\ loc[p].df # {} <=> newer
          /\ pc[p] # "rows" => { ProjDf(b) : b \in loc[p].data_to_insert }
                                  = { ProjDf(x) : x \in loc[p].df }
          /\ hist[p].outcome = "committed" =>
               \E r \in table : /\ r.symbol = loc[p].symbol
                                /\ r.timestamp = DtDate(hist[p].called_at)
                                /\ r.close_price = hist[p].price
          /\ ~newer => table = hist[p].snap

====
